---- MODULE Spec2Model ----
(***************************************************************************)
(* The microdata parser of namsral/microdata (package microdata):          *)
(* parser.parse, parser.readItem, parser.readAttr and parser.getValue as a *)
(* state machine over an explicit call stack, one frame per Go call.       *)
(*                                                                         *)
(* A document is the node tree html.Parse hands to the parser: node 0 is   *)
(* the document node, nodes 1..n are numbered in document pre-order, and   *)
(* every node has its parent, its type, its element kind, its text payload *)
(* and its attribute list (key/value pairs in source order).  An attribute *)
(* value is a sequence of pieces: a piece is either the single space " "   *)
(* or a run of characters without a space, so strings.Split(s, " ") is     *)
(* computed on it as Go computes it on the string.                         *)
(***************************************************************************)
EXTENDS Integers, Sequences, FiniteSets, TLC

VARIABLES
    tree,             \* parser.tree: [parent, node] of the document
    baseURL,          \* parser.baseURL, as its String()
    pc,               \* where parse() is: "walk", "items", "done", "overflow"
    walkPos,          \* how many nodes of the first pass walkNodes has visited
    toplevelNodes,    \* parse's local slice toplevelNodes
    identifiedNodes,  \* parser.identifiedNodes: id value -> node
    topIdx,           \* index of the range loop over toplevelNodes
    heap,             \* every *Item allocated by NewItem, by allocation order
    items,            \* parser.data.Items: heap indices
    stack,            \* the Go call stack below parse(): readItem/readAttr frames
    origin,           \* history: for every value of every Item, the node and reference token it came from
    created,          \* history: for every Item, the node it was created for and the Item being built then
    visited,          \* history: every readItem call made so far
    calls,            \* history: how many ParseHTML invocations have begun
    first,            \* history: document, base URL and result of the first invocation
    upstream,         \* what charset.NewReader and html.Parse do: "ok", or which of them fails
    ret               \* what ParseHTML has returned: its *Microdata and its error

vars == <<tree, baseURL, pc, walkPos, toplevelNodes, identifiedNodes, topIdx,
          heap, items, stack, origin, created, visited, calls, first, upstream, ret>>

----------------------------------------------------------------------------
(* Bounds of the model *)

\* number of nodes of a document below the document node
NumNodes == 3

\* frames the Go stack may hold before the runtime aborts with a stack overflow
MaxStack == 14

\* number of nodes of the documents about nested items
NestNodes == 4

\* number of nodes of the documents about text content
TextNodes == 4

\* number of nodes of the documents about the tokens of itemprop
TokNodes == 3

\* ParseHTML invocations in a row
MaxCalls == 3

\* number of nodes of the documents of invocations in a row
CallNodes == 2

----------------------------------------------------------------------------
(* Nodes *)

Attr(k, v) == [Key |-> k, Val |-> v]

Elem(a, attrs) == [Type |-> "element", DataAtom |-> a, Data |-> a, Attr |-> attrs]

Text(d) == [Type |-> "text", DataAtom |-> "", Data |-> d, Attr |-> <<>>]

DocumentNode == [Type |-> "document", DataAtom |-> "", Data |-> "", Attr |-> <<>>]

\* elements the HTML parser never gives children
VoidAtoms == {"meta", "img", "embed", "source", "track", "area", "link"}

CanHaveChildren(nd) == nd.Type # "text" /\ nd.DataAtom \notin VoidAtoms

NodeIds(t) == 0 .. Len(t.parent)

Node(t, n) == IF n = 0 THEN DocumentNode ELSE t.node[n]

\* node.FirstChild, then c.NextSibling until nil
Children(t, n) ==
    LET S == {c \in 1 .. Len(t.parent) : t.parent[c] = n}
        RECURSIVE Sorted(_)
        Sorted(R) == IF R = {} THEN <<>>
                     ELSE LET m == CHOOSE x \in R : \A y \in R : x <= y
                          IN <<m>> \o Sorted(R \ {m})
    IN Sorted(S)

RECURSIVE AncestorsOrSelf(_, _)
AncestorsOrSelf(parent, n) ==
    IF n = 0 THEN {0} ELSE {n} \cup AncestorsOrSelf(parent, parent[n])

InSubtree(t, n, r) == r \in AncestorsOrSelf(t.parent, n)

RECURSIVE DepthOf(_, _)
DepthOf(parent, n) == IF n = 0 THEN 0 ELSE 1 + DepthOf(parent, parent[n])

\* parent vectors of the trees whose pre-order is 1..n
RECURSIVE Parents(_)
Parents(n) ==
    IF n = 0 THEN {<<>>}
    ELSE {Append(p, q) : p \in Parents(n - 1),
                         q \in 0 .. (n - 1)}

WellNumbered(p) ==
    \A i \in 1 .. Len(p) :
        /\ p[i] < i
        /\ i > 1 => p[i] \in AncestorsOrSelf(p, i - 1)

Docs(n, profiles) ==
    {t \in [parent : {p \in Parents(n) : WellNumbered(p)},
            node : [1 .. n -> profiles]] :
        \A i \in 1 .. n : t.parent[i] # 0 => CanHaveChildren(t.node[t.parent[i]])}

----------------------------------------------------------------------------
(* Helpers of the package *)

RECURSIVE getAttrFrom(_, _, _)
getAttrFrom(attribute, attrs, i) ==
    IF i > Len(attrs) THEN [val |-> <<>>, ok |-> FALSE]
    ELSE IF attribute = attrs[i].Key THEN [val |-> attrs[i].Val, ok |-> TRUE]
    ELSE getAttrFrom(attribute, attrs, i + 1)

getAttr(attribute, nd) == getAttrFrom(attribute, nd.Attr, 1)

\* the Go string an attribute value stands for
RECURSIVE Str(_)
Str(v) == IF v = <<>> THEN "" ELSE Head(v) \o Str(Tail(v))

\* strings.Split(s, " ")
RECURSIVE SplitFrom(_, _, _, _)
SplitFrom(s, i, cur, acc) ==
    IF i > Len(s) THEN Append(acc, cur)
    ELSE IF s[i] = " " THEN SplitFrom(s, i + 1, "", Append(acc, cur))
    ELSE SplitFrom(s, i + 1, cur \o s[i], acc)

Split(s) == SplitFrom(s, 1, "", <<>>)

\* walkNodes(n, f): the nodes in the order f is applied to them
RECURSIVE walkNodes(_, _)
RECURSIVE walkList(_, _)
walkNodes(t, n) == <<n>> \o walkList(t, Children(t, n))
walkList(t, cs) == IF cs = <<>> THEN <<>>
                   ELSE walkNodes(t, Head(cs)) \o walkList(t, Tail(cs))

\* references net/url rejects
BadURLs == {"%zz"}

\* references with a scheme
AbsoluteURLs == {"urn:x"}

\* baseURL.Parse(s) followed by String(); base is "" or ends in "/"
URLParse(base, s) ==
    IF s \in BadURLs THEN [err |-> TRUE, str |-> ""]
    ELSE IF s \in AbsoluteURLs THEN [err |-> FALSE, str |-> s]
    ELSE IF s = "" THEN [err |-> FALSE, str |-> base]
    ELSE IF base = "" THEN [err |-> FALSE, str |-> "/" \o s]
    ELSE [err |-> FALSE, str |-> base \o s]

SrcAtoms == {"audio", "embed", "iframe", "img", "source", "track", "video"}

HrefAtoms == {"a", "area", "link"}

ValueAtoms == {"data", "meter"}

RECURSIVE TextOf(_, _)
TextOf(t, ns) ==
    IF ns = <<>> THEN ""
    ELSE (IF Node(t, Head(ns)).Type = "text" THEN Node(t, Head(ns)).Data ELSE "")
         \o TextOf(t, Tail(ns))

PlainAttrValue(nd, key) ==
    LET a == getAttr(key, nd) IN IF a.ok THEN Str(a.val) ELSE ""

URLAttrValue(base, nd, key) ==
    LET a == getAttr(key, nd)
        u == URLParse(base, Str(a.val))
    IN IF a.ok /\ ~u.err THEN u.str ELSE ""

\* a dispatch without the data and meter case
getValue_DataAsText(t, base, n) ==
    LET nd == Node(t, n)
    IN CASE nd.DataAtom = "meta" -> PlainAttrValue(nd, "content")
         [] nd.DataAtom \in SrcAtoms -> URLAttrValue(base, nd, "src")
         [] nd.DataAtom \in HrefAtoms -> URLAttrValue(base, nd, "href")
         [] nd.DataAtom = "time" -> PlainAttrValue(nd, "datetime")
         [] OTHER -> TextOf(t, walkNodes(t, n))

\* a dispatch that takes the text when the attribute gives nothing
getValue_TextFallback(t, base, n) ==
    LET nd == Node(t, n)
        v == CASE nd.DataAtom = "meta" -> PlainAttrValue(nd, "content")
               [] nd.DataAtom \in SrcAtoms -> URLAttrValue(base, nd, "src")
               [] nd.DataAtom \in HrefAtoms -> URLAttrValue(base, nd, "href")
               [] nd.DataAtom \in ValueAtoms -> PlainAttrValue(nd, "value")
               [] nd.DataAtom = "time" -> PlainAttrValue(nd, "datetime")
               [] OTHER -> ""
    IN IF v # "" THEN v ELSE TextOf(t, walkNodes(t, n))

\* a default case that takes the text nodes among the children only
getValue_ChildText(t, base, n) ==
    LET nd == Node(t, n)
    IN CASE nd.DataAtom = "meta" -> PlainAttrValue(nd, "content")
         [] nd.DataAtom \in SrcAtoms -> URLAttrValue(base, nd, "src")
         [] nd.DataAtom \in HrefAtoms -> URLAttrValue(base, nd, "href")
         [] nd.DataAtom \in ValueAtoms -> PlainAttrValue(nd, "value")
         [] nd.DataAtom = "time" -> PlainAttrValue(nd, "datetime")
         [] OTHER -> TextOf(t, Children(t, n))

getValue(t, base, n) ==
    LET nd == Node(t, n)
    IN CASE nd.DataAtom = "meta" -> PlainAttrValue(nd, "content")
         [] nd.DataAtom \in SrcAtoms -> URLAttrValue(base, nd, "src")
         [] nd.DataAtom \in HrefAtoms -> URLAttrValue(base, nd, "href")
         [] nd.DataAtom \in ValueAtoms -> PlainAttrValue(nd, "value")
         [] nd.DataAtom = "time" -> PlainAttrValue(nd, "datetime")
         [] OTHER -> TextOf(t, walkNodes(t, n))

----------------------------------------------------------------------------
(* Items *)

NewItem == [Types |-> <<>>, Properties |-> <<>>, Id |-> ""]

StringValue(s) == [kind |-> "string", str |-> s, item |-> 0]

ItemValue(k) == [kind |-> "item", str |-> "", item |-> k]

\* m[property] of a Go map: the zero value when the key is missing
Lookup(m, property) == IF property \in DOMAIN m THEN m[property] ELSE <<>>

\* Item.addString and Item.addItem: m[property] = append(m[property], value)
MapAppend(m, property, value) ==
    [k \in DOMAIN m \cup {property} |->
        IF k = property THEN Append(Lookup(m, property), value) ELSE m[k]]

\* append value once under every distinct non-empty name
RECURSIVE addUnderEach_Once(_, _, _)
addUnderEach_Once(m, names, value) ==
    IF names = <<>> THEN m
    ELSE addUnderEach_Once(IF Head(names) # "" THEN MapAppend(m, Head(names), value) ELSE m,
                           SelectSeq(Tail(names), LAMBDA x : x # Head(names)), value)

\* append value under every non-empty name, in order
RECURSIVE addUnderEach(_, _, _)
addUnderEach(m, names, value) ==
    IF names = <<>> THEN m
    ELSE addUnderEach(IF Head(names) # "" THEN MapAppend(m, Head(names), value) ELSE m,
                      Tail(names), value)

NonEmpty(tokens) == SelectSeq(tokens, LAMBDA x : x # "")

\* an addType for every token, the empty ones too
addTypes_All(it, tokens) == [it EXCEPT !.Types = it.Types \o tokens]

\* Item.addType for every non-empty token
addTypes(it, tokens) == [it EXCEPT !.Types = it.Types \o NonEmpty(tokens)]

----------------------------------------------------------------------------
(* The call stack *)

ReadItemFrame(item, n, isToplevel, ref) ==
    [fn |-> "readItem", item |-> item, node |-> n, isToplevel |-> isToplevel,
     pc |-> "start", i |-> 1, sub |-> 0, target |-> item, ref |-> ref]

ReadAttrFrame(item, n) ==
    [fn |-> "readAttr", item |-> item, node |-> n, isToplevel |-> FALSE,
     pc |-> "start", i |-> 1, sub |-> 0, target |-> item, ref |-> 0]

Top == stack[Len(stack)]

Pop == SubSeq(stack, 1, Len(stack) - 1)

\* the stack with its top frame replaced
SetTop(f) == Append(Pop, f)

Visit(f, via, caller) ==
    [item |-> f.item, node |-> f.node, isToplevel |-> f.isToplevel, via |-> via,
     from |-> caller.node, fromTop |-> caller.isToplevel, ref |-> f.ref]

\* a Go call: the callee's frame goes on the stack, or the stack is exhausted
Call(below, f) ==
    IF Len(below) + 1 > MaxStack
    THEN /\ pc' = "overflow"
         /\ stack' = stack
    ELSE /\ pc' = pc
         /\ stack' = Append(below, f)

Running == pc \in {"readAttr", "readItem"} /\ stack # <<>>

----------------------------------------------------------------------------
(* parser.parse *)

\* a closure that takes the nodes with itemscope and itemtype instead
isToplevelNode_Typed(nd) == getAttr("itemscope", nd).ok /\ getAttr("itemtype", nd).ok

\* a closure that takes every node with itemscope
isToplevelNode_AnyScope(nd) == getAttr("itemscope", nd).ok

\* the test of the closure: itemscope without itemprop
isToplevelNode(nd) == getAttr("itemscope", nd).ok /\ ~getAttr("itemprop", nd).ok

\* an index that records the ids of property nodes only
indexNode_PropOnly(m, nd, n) ==
    LET id == getAttr("id", nd)
    IN IF id.ok /\ getAttr("itemprop", nd).ok
       THEN [k \in DOMAIN m \cup {Str(id.val)} |-> IF k = Str(id.val) THEN n ELSE m[k]]
       ELSE m

\* an index that keeps the first node of an id
indexNode_FirstWins(m, nd, n) ==
    LET id == getAttr("id", nd)
    IN IF id.ok /\ Str(id.val) \notin DOMAIN m
       THEN [k \in DOMAIN m \cup {Str(id.val)} |-> IF k = Str(id.val) THEN n ELSE m[k]]
       ELSE m

\* p.identifiedNodes[id] = n for a node that has an id attribute
indexNode(m, nd, n) ==
    LET id == getAttr("id", nd)
    IN IF id.ok
       THEN [k \in DOMAIN m \cup {Str(id.val)} |-> IF k = Str(id.val) THEN n ELSE m[k]]
       ELSE m

\* one application of the closure parse() hands to walkNodes
WalkStep ==
    /\ pc = "walk"
    /\ LET order == walkNodes(tree, 0)
           n == order[walkPos + 1]
           nd == Node(tree, n)
       IN /\ walkPos' = walkPos + 1
          /\ toplevelNodes' =
                IF isToplevelNode(nd)
                THEN Append(toplevelNodes, n) ELSE toplevelNodes
          /\ identifiedNodes' = indexNode(identifiedNodes, nd, n)
          /\ pc' = IF walkPos + 1 = Len(order) THEN "items" ELSE "walk"
    /\ UNCHANGED <<upstream, ret, calls, first, tree, baseURL, topIdx, heap, items, stack, origin, created, visited>>

\* the head of the range loop: NewItem, addItem and the call of readAttr
ParseNext ==
    /\ pc = "items"
    /\ topIdx <= Len(toplevelNodes)
    /\ LET k == Len(heap) + 1
           n == toplevelNodes[topIdx]
       IN /\ heap' = Append(heap, NewItem)
          /\ origin' = Append(origin, <<>>)
          /\ created' = Append(created, [node |-> n, parent |-> 0])
          /\ items' = Append(items, k)
          /\ stack' = <<ReadAttrFrame(k, n)>>
          /\ pc' = "readAttr"
    /\ UNCHANGED <<upstream, ret, calls, first, tree, baseURL, walkPos, toplevelNodes, identifiedNodes, topIdx, visited>>

\* readAttr(item, node) has returned: the call readItem(item, node, true)
ParseReadItem ==
    /\ pc = "readAttr"
    /\ stack = <<>>
    /\ LET f == ReadItemFrame(items[Len(items)], toplevelNodes[topIdx], TRUE, 0)
       IN /\ stack' = <<f>>
          /\ visited' = visited \cup {Visit(f, "top", f)}
    /\ pc' = "readItem"
    /\ UNCHANGED <<upstream, ret, calls, first, tree, baseURL, walkPos, toplevelNodes, identifiedNodes, topIdx,
                   heap, items, origin, created>>

\* readItem(item, node, true) has returned: the next iteration
ParseLoop ==
    /\ pc = "readItem"
    /\ stack = <<>>
    /\ topIdx' = topIdx + 1
    /\ pc' = "items"
    /\ UNCHANGED <<upstream, ret, calls, first, tree, baseURL, walkPos, toplevelNodes, identifiedNodes,
                   heap, items, stack, origin, created, visited>>

\* return p.data, nil
ParseReturn ==
    /\ pc = "items"
    /\ topIdx > Len(toplevelNodes)
    /\ pc' = "done"
    /\ ret' = [model |-> "data", err |-> "nil"]
    /\ UNCHANGED <<upstream, calls, first, tree, baseURL, walkPos, toplevelNodes, identifiedNodes, topIdx,
                   heap, items, stack, origin, created, visited>>

----------------------------------------------------------------------------
(* parser.readAttr *)

\* a readAttr that reads itemid outside the itemtype branch
readAttrId_Untyped(base, nd, old) ==
    LET id == getAttr("itemid", nd)
        u == URLParse(base, Str(id.val))
    IN IF id.ok /\ ~u.err THEN u.str ELSE old

\* the Id readAttr gives an item for node nd
readAttrId(base, nd, old) ==
    LET ty == getAttr("itemtype", nd)
        id == getAttr("itemid", nd)
        u == URLParse(base, Str(id.val))
    IN IF ty.ok /\ id.ok /\ ~u.err THEN u.str ELSE old

\* the itemtype and itemid part
ReadAttrStart ==
    /\ Running
    /\ Top.fn = "readAttr"
    /\ Top.pc = "start"
    /\ LET f == Top
           nd == Node(tree, f.node)
           ty == getAttr("itemtype", nd)
           typed == IF ty.ok THEN addTypes(heap[f.item], Split(ty.val)) ELSE heap[f.item]
       IN /\ heap' = [heap EXCEPT ![f.item] =
                        [typed EXCEPT !.Id = readAttrId(baseURL, nd, typed.Id)]]
          /\ stack' = SetTop([f EXCEPT !.pc = "refs"])
    /\ UNCHANGED <<upstream, ret, calls, first, tree, baseURL, pc, walkPos, toplevelNodes, identifiedNodes, topIdx,
                   items, origin, created, visited>>

Reverse(q) == [i \in 1 .. Len(q) |-> q[Len(q) + 1 - i]]

\* a readAttr that walks the tokens from the last to the first
itemrefs_Reversed(nd) ==
    LET a == getAttr("itemref", nd) IN IF a.ok THEN Reverse(Split(a.val)) ELSE <<>>

\* a readAttr that leaves the loop at the first token it cannot use
itemrefs_UntilMiss(nd) ==
    LET a == getAttr("itemref", nd)
        ts == IF a.ok THEN Split(a.val) ELSE <<>>
        bad == {i \in 1 .. Len(ts) : ts[i] = "" \/ ts[i] \notin DOMAIN identifiedNodes}
    IN IF bad = {} THEN ts
       ELSE SubSeq(ts, 1, (CHOOSE i \in bad : \A j \in bad : i <= j) - 1)

\* the tokens of the itemref attribute, none when it is missing
itemrefs(nd) ==
    LET a == getAttr("itemref", nd) IN IF a.ok THEN Split(a.val) ELSE <<>>

\* a readAttr that reads the referenced node as parse() reads a root
refCall_Toplevel(item, n, i) == ReadItemFrame(item, n, TRUE, i)

\* a readAttr that reads every referenced node into the first Item of the model
refCall_FirstItem(item, n, i) == ReadItemFrame(items[1], n, FALSE, i)

\* p.readItem(item, n, false) for the i-th token
refCall(item, n, i) == ReadItemFrame(item, n, FALSE, i)

\* one iteration of the loop over the itemref tokens
ReadAttrRef ==
    /\ Running
    /\ Top.fn = "readAttr"
    /\ Top.pc = "refs"
    /\ Top.i <= Len(itemrefs(Node(tree, Top.node)))
    /\ LET f == Top
           itemref == itemrefs(Node(tree, f.node))[f.i]
           next == SetTop([f EXCEPT !.i = f.i + 1])
       IN IF itemref # "" /\ itemref \in DOMAIN identifiedNodes
          THEN LET g == refCall(f.item, identifiedNodes[itemref], f.i)
               IN /\ Call(next, g)
                  /\ visited' = visited \cup {Visit(g, "ref", f)}
          ELSE /\ stack' = next
               /\ UNCHANGED <<pc, visited>>
    /\ UNCHANGED <<upstream, ret, calls, first, tree, baseURL, walkPos, toplevelNodes, identifiedNodes, topIdx,
                   heap, items, origin, created>>

ReadAttrReturn ==
    /\ Running
    /\ Top.fn = "readAttr"
    /\ Top.pc = "refs"
    /\ Top.i > Len(itemrefs(Node(tree, Top.node)))
    /\ stack' = Pop
    /\ UNCHANGED <<upstream, ret, calls, first, tree, baseURL, pc, walkPos, toplevelNodes, identifiedNodes, topIdx,
                   heap, items, origin, created, visited>>

----------------------------------------------------------------------------
(* parser.readItem *)

hasProp(n) == getAttr("itemprop", Node(tree, n)).ok

hasScope(n) == getAttr("itemscope", Node(tree, n)).ok

\* strings.Split(itemprops, " ")
propNames(n) == Split(getAttr("itemprop", Node(tree, n)).val)

\* a switch without its third case
readItemCase_NoReturn(n, isToplevel) ==
    IF hasScope(n) /\ hasProp(n) THEN "subItem"
    ELSE IF ~hasScope(n) /\ hasProp(n) THEN "string"
    ELSE "none"

\* a switch that tests itemprop alone, and first
readItemCase_PropFirst(n, isToplevel) ==
    IF hasProp(n) THEN "string"
    ELSE IF hasScope(n) /\ ~isToplevel THEN "return"
    ELSE "none"

\* the case the switch of readItem takes, the first that matches
readItemCase(n, isToplevel) ==
    IF hasScope(n) /\ hasProp(n) THEN "subItem"
    ELSE IF ~hasScope(n) /\ hasProp(n) THEN "string"
    ELSE IF hasScope(n) /\ ~hasProp(n) /\ ~isToplevel THEN "return"
    ELSE "none"

\* case hasScope && hasProp: NewItem and the call readAttr(subItem, node)
\* a first case that calls p.readAttr(item, node)
subAttrItem_Outer(item, subItem) == item

\* the Item of the first case's p.readAttr(subItem, node)
subAttrItem(item, subItem) == subItem

ReadItemSubItem ==
    /\ Running
    /\ Top.fn = "readItem"
    /\ Top.pc = "start"
    /\ readItemCase(Top.node, Top.isToplevel) = "subItem"
    /\ LET f == Top
           k == Len(heap) + 1
       IN /\ heap' = Append(heap, NewItem)
          /\ origin' = Append(origin, <<>>)
          /\ created' = Append(created, [node |-> f.node, parent |-> f.item])
          /\ Call(SetTop([f EXCEPT !.pc = "attach", !.sub = k]), ReadAttrFrame(subAttrItem(f.item, k), f.node))
    /\ UNCHANGED <<upstream, ret, calls, first, tree, baseURL, walkPos, toplevelNodes, identifiedNodes, topIdx,
                   items, visited>>

\* an addItem on subItem itself
attachItem_Sub(f) == f.sub

\* an addItem on the first top-level Item of the document
attachItem_FirstRoot(f) == items[1]

\* an addItem on the Item allocated just before subItem
attachItem_Previous(f) == f.sub - 1

\* the receiver of addItem in readItem's first case
attachItem(f) == f.item

\* readAttr(subItem, node) has returned: item.addItem(propName, subItem) for
\* every non-empty propName; the children are then read into subItem
ReadItemAttach ==
    /\ Running
    /\ Top.fn = "readItem"
    /\ Top.pc = "attach"
    /\ LET f == Top
       IN /\ heap' = [heap EXCEPT ![attachItem(f)].Properties =
                        addUnderEach(@, propNames(f.node), ItemValue(f.sub))]
          /\ origin' = [origin EXCEPT ![attachItem(f)] =
                        addUnderEach(@, propNames(f.node), [node |-> f.node, ref |-> f.ref])]
          /\ stack' = SetTop([f EXCEPT !.pc = "children", !.target = f.sub, !.ref = 0])
    /\ UNCHANGED <<upstream, ret, calls, first, tree, baseURL, pc, walkPos, toplevelNodes, identifiedNodes, topIdx,
                   items, created, visited>>

\* a second case that ends with return
stringFrame_Return(f) ==
    [f EXCEPT !.pc = "children", !.i = Len(Children(tree, f.node)) + 1]

\* the frame after the second case: it has no return, the loop over the
\* children follows
stringFrame(f) == [f EXCEPT !.pc = "children"]

\* case !hasScope && hasProp: item.addString(propName, s) for every non-empty
\* propName when getValue gives a non-empty s
ReadItemString ==
    /\ Running
    /\ Top.fn = "readItem"
    /\ Top.pc = "start"
    /\ readItemCase(Top.node, Top.isToplevel) = "string"
    /\ LET f == Top
           s == getValue(tree, baseURL, f.node)
       IN /\ heap' = IF s # ""
                     THEN [heap EXCEPT ![f.item].Properties =
                            addUnderEach(@, propNames(f.node), StringValue(s))]
                     ELSE heap
          /\ origin' = IF s # ""
                       THEN [origin EXCEPT ![f.item] =
                              addUnderEach(@, propNames(f.node), [node |-> f.node, ref |-> f.ref])]
                       ELSE origin
          /\ stack' = SetTop(stringFrame(f))
    /\ UNCHANGED <<upstream, ret, calls, first, tree, baseURL, pc, walkPos, toplevelNodes, identifiedNodes, topIdx,
                   items, created, visited>>

\* case hasScope && !hasProp && !isToplevel: return
ReadItemStop ==
    /\ Running
    /\ Top.fn = "readItem"
    /\ Top.pc = "start"
    /\ readItemCase(Top.node, Top.isToplevel) = "return"
    /\ stack' = Pop
    /\ UNCHANGED <<upstream, ret, calls, first, tree, baseURL, pc, walkPos, toplevelNodes, identifiedNodes, topIdx,
                   heap, items, origin, created, visited>>

\* no case of the switch applies
ReadItemDescend ==
    /\ Running
    /\ Top.fn = "readItem"
    /\ Top.pc = "start"
    /\ readItemCase(Top.node, Top.isToplevel) = "none"
    /\ stack' = SetTop([Top EXCEPT !.pc = "children"])
    /\ UNCHANGED <<upstream, ret, calls, first, tree, baseURL, pc, walkPos, toplevelNodes, identifiedNodes, topIdx,
                   heap, items, origin, created, visited>>

\* a first case whose loop reads the children into item
childItem_Outer(f) == f.item

\* the Item the children are read into: subItem in the first case (line
\* 220), item after the switch (line 236)
childItem(f) == f.target

\* a loop from the last child back to the first
nextChild_Backwards(f) ==
    Children(tree, f.node)[Len(Children(tree, f.node)) + 1 - f.i]

\* the child of the i-th iteration: c := node.FirstChild; c = c.NextSibling
nextChild(f) == Children(tree, f.node)[f.i]

\* one iteration of a loop over the children: p.readItem(_, c, false)
ReadItemChild ==
    /\ Running
    /\ Top.fn = "readItem"
    /\ Top.pc = "children"
    /\ Top.i <= Len(Children(tree, Top.node))
    /\ LET f == Top
           c == nextChild(f)
           g == ReadItemFrame(childItem(f), c, FALSE, f.ref)
       IN /\ Call(SetTop([f EXCEPT !.i = f.i + 1]), g)
          /\ visited' = visited \cup {Visit(g, "child", f)}
    /\ UNCHANGED <<upstream, ret, calls, first, tree, baseURL, walkPos, toplevelNodes, identifiedNodes, topIdx,
                   heap, items, origin, created>>

ReadItemReturn ==
    /\ Running
    /\ Top.fn = "readItem"
    /\ Top.pc = "children"
    /\ Top.i > Len(Children(tree, Top.node))
    /\ stack' = Pop
    /\ UNCHANGED <<upstream, ret, calls, first, tree, baseURL, pc, walkPos, toplevelNodes, identifiedNodes, topIdx,
                   heap, items, origin, created, visited>>

----------------------------------------------------------------------------
(* Documents *)

Tok(s) == <<s>>

Scope == Attr("itemscope", <<>>)

\* <div id="a">
DivA == Elem("div", <<Attr("id", Tok("a"))>>)

\* the text t
TextT == Text("t")

\* <div itemscope itemref="b a">
RootRef == Elem("div", <<Scope, Attr("itemref", <<"b", " ", "a">>)>>)

\* <div itemscope id="a">
RootA == Elem("div", <<Scope, Attr("id", Tok("a"))>>)

\* <meta itemprop="p" content="v" id="a">
MetaA == Elem("meta", <<Attr("itemprop", Tok("p")), Attr("content", Tok("v")), Attr("id", Tok("a"))>>)

\* <meta itemprop="p" content="w" id="b">
MetaB == Elem("meta", <<Attr("itemprop", Tok("p")), Attr("content", Tok("w")), Attr("id", Tok("b"))>>)

\* <div itemscope itemprop="q r" id="b">
Both == Elem("div", <<Scope, Attr("itemprop", <<"q", " ", "r">>), Attr("id", Tok("b"))>>)

\* <div itemscope itemprop="q" id="a" itemref="a">
BothCyc == Elem("div", <<Scope, Attr("itemprop", Tok("q")), Attr("id", Tok("a")),
                         Attr("itemref", Tok("a"))>>)

\* documents about scopes and references
Profiles == {DivA, TextT, RootRef, RootA, MetaA, MetaB, Both, BothCyc}

Prop(v) == Attr("itemprop", v)

\* <div itemscope itemref="a">
VRoot == Elem("div", <<Scope, Attr("itemref", Tok("a"))>>)

\* <div itemscope itemprop="q" id="a">
VBoth == Elem("div", <<Scope, Prop(Tok("q")), Attr("id", Tok("a"))>>)

\* <meta itemprop="p" content="">
MetaEmpty == Elem("meta", <<Prop(Tok("p")), Attr("content", <<>>)>>)

\* <data itemprop="p" value="">
DataEmpty == Elem("data", <<Prop(Tok("p")), Attr("value", <<>>)>>)

\* <img itemprop="p" src="">
ImgEmpty == Elem("img", <<Prop(Tok("p")), Attr("src", <<>>)>>)

\* <div itemprop="p">
PropDiv == Elem("div", <<Prop(Tok("p"))>>)

\* documents about property values
ValueProfiles == {VRoot, VBoth, MetaEmpty, DataEmpty, ImgEmpty, PropDiv, TextT}

\* <div itemscope itemid="urn:x" itemref="a">
RootId == Elem("div", <<Scope, Attr("itemid", Tok("urn:x")), Attr("itemref", Tok("a"))>>)

\* <div itemscope itemtype="T" itemid="x">
RootType == Elem("div", <<Scope, Attr("itemtype", Tok("T")), Attr("itemid", Tok("x"))>>)

\* <div itemscope itemtype="T" itemid="%zz">
RootBadId == Elem("div", <<Scope, Attr("itemtype", Tok("T")), Attr("itemid", Tok("%zz"))>>)

\* <div itemscope itemprop="q" itemid="urn:x" id="a">
BothId == Elem("div", <<Scope, Prop(Tok("q")), Attr("itemid", Tok("urn:x")), Attr("id", Tok("a"))>>)

\* <div itemscope itemprop="q" itemtype=" " itemid="x">
BothType == Elem("div", <<Scope, Prop(Tok("q")), Attr("itemtype", <<" ">>), Attr("itemid", Tok("x"))>>)

\* <div itemscope itemtype="T  U T">
RootTypes == Elem("div", <<Scope, Attr("itemtype", <<"T", " ", " ", "U", " ", "T">>)>>)

\* documents about itemtype and itemid
AttrProfiles == {RootId, RootType, RootBadId, BothId, BothType, MetaA, RootTypes}

\* <div itemscope itemref="c  a b">
RootGap == Elem("div", <<Scope, Attr("itemref", <<"c", " ", " ", "a", " ", "b">>)>>)

\* <meta itemprop="p" content="u">
MetaU == Elem("meta", <<Prop(Tok("p")), Attr("content", Tok("u"))>>)

\* documents about the id index and the tokens of itemref
RefProfiles == {RootGap, DivA, VBoth, MetaU, RootA, MetaA, MetaB, TextT}

\* <data itemprop="p" value="v">
DataV == Elem("data", <<Prop(Tok("p")), Attr("value", Tok("v"))>>)

\* <time itemprop="p" datetime="d">
TimeD == Elem("time", <<Prop(Tok("p")), Attr("datetime", Tok("d"))>>)

\* <time itemprop="p">
TimeNone == Elem("time", <<Prop(Tok("p"))>>)

\* <a itemprop="p" href="%zz">
ABad == Elem("a", <<Prop(Tok("p")), Attr("href", Tok("%zz"))>>)

\* <x itemprop="p">, an element name without atom
Unknown == [Type |-> "element", DataAtom |-> "", Data |-> "x", Attr |-> <<Prop(Tok("p"))>>]

\* documents about the element kinds
KindProfiles == {VRoot, VBoth, DataV, TimeD, TimeNone, ABad, Unknown, MetaU, TextT}

\* <div itemscope>
PRoot == Elem("div", <<Scope>>)

\* <div itemscope itemprop="q" itemref="a">
BothRef == Elem("div", <<Scope, Prop(Tok("q")), Attr("itemref", Tok("a"))>>)

\* documents about nested items
NestProfiles == {PRoot, BothRef, MetaA, MetaU}

\* the text s
TextS == Text("s")

\* documents about text content
TextProfiles == {VRoot, VBoth, PropDiv, TextT, TextS}

\* <div itemscope itemprop=" q  q r " id="a">
BothGaps == Elem("div", <<Scope, Prop(<<" ", "q", " ", " ", "q", " ", "r", " ">>),
                          Attr("id", Tok("a"))>>)

\* <meta itemprop=" p  r p " content="v">
MetaGaps == Elem("meta", <<Prop(<<" ", "p", " ", " ", "r", " ", "p", " ">>),
                           Attr("content", Tok("v"))>>)

\* documents about the tokens of itemprop
TokProfiles == {VRoot, BothGaps, MetaGaps, MetaU}

\* the base URLs: that of the tests, and the empty one of url.Parse("")
Bases == {"http://e/", ""}

----------------------------------------------------------------------------
(* The specification *)

\* a parser that takes over the id index of the invocation before
newParser_Shared(t, u) ==
    [tree |-> t, data |-> <<>>, baseURL |-> u, identifiedNodes |-> identifiedNodes]

\* the parser newParser returns for document t and base URL u
newParser(t, u) == [tree |-> t, data |-> <<>>, baseURL |-> u, identifiedNodes |-> <<>>]

NoResult == [tree |-> [parent |-> <<>>, node |-> <<>>], baseURL |-> "",
             heap |-> <<>>, items |-> <<>>]

NoReturn == [model |-> "none", err |-> "none"]

NoTree == [parent |-> <<>>, node |-> <<>>]

\* newParser returns its error: if err != nil { return nil, err } in ParseHTML
ParseHTMLFail ==
    /\ pc = "new"
    /\ upstream # "ok"
    /\ pc' = "failed"
    /\ ret' = [model |-> "nil", err |-> upstream]
    /\ UNCHANGED <<upstream, calls, first, tree, baseURL, walkPos, toplevelNodes,
                   identifiedNodes, topIdx, heap, items, stack, origin, created, visited>>

\* the locals and histories at the start of an invocation
InitLocals ==
    /\ walkPos = 0
    /\ toplevelNodes = <<>>
    /\ identifiedNodes = <<>>
    /\ topIdx = 1
    /\ heap = <<>>
    /\ items = <<>>
    /\ stack = <<>>
    /\ origin = <<>>
    /\ created = <<>>
    /\ visited = {}
    /\ calls = 1
    /\ first = NoResult
    /\ ret = NoReturn

\* ParseHTML is entered and charset.NewReader or html.Parse is going to fail:
\* no tree is built
InitFailed ==
    /\ upstream \in {"charset", "html"}
    /\ pc = "new"
    /\ tree = NoTree
    /\ InitLocals

\* newParser: the state parse() starts in
InitParser ==
    /\ upstream = "ok"
    /\ pc = "walk"
    /\ InitLocals

\* the states ParseHTML can be in after newParser, for the documents docs
Begin(docs) == (tree \in docs /\ InitParser) \/ InitFailed

Init ==
    /\ baseURL = "http://e/"
    /\ Begin(Docs(NumNodes, Profiles))

Next ==
    \/ WalkStep
    \/ ParseNext
    \/ ParseReadItem
    \/ ParseLoop
    \/ ParseReturn
    \/ ReadAttrStart
    \/ ReadAttrRef
    \/ ReadAttrReturn
    \/ ReadItemSubItem
    \/ ReadItemAttach
    \/ ReadItemString
    \/ ReadItemStop
    \/ ReadItemDescend
    \/ ReadItemChild
    \/ ReadItemReturn
    \/ ParseHTMLFail

Spec == Init /\ [][Next]_vars

InitValue ==
    /\ baseURL \in Bases
    /\ Begin(Docs(NumNodes, ValueProfiles))

SpecValue == InitValue /\ [][Next]_vars

InitAttr ==
    /\ baseURL = "http://e/"
    /\ Begin(Docs(NumNodes, AttrProfiles))

SpecAttr == InitAttr /\ [][Next]_vars

InitRef ==
    /\ baseURL = "http://e/"
    /\ Begin(Docs(NumNodes, RefProfiles))

SpecRef == InitRef /\ [][Next]_vars

\* documents of invocations in a row
CallProfiles == {VRoot, VBoth, MetaU}

\* ParseHTML once more, after an invocation has returned: newParser and the
\* start of parse()
ParseHTMLAgain ==
    /\ pc = "done"
    /\ calls < MaxCalls
    /\ \E t \in Docs(CallNodes, CallProfiles) :
            LET p == newParser(t, baseURL)
            IN /\ tree' = p.tree
               /\ baseURL' = p.baseURL
               /\ identifiedNodes' = p.identifiedNodes
               /\ items' = p.data
    /\ heap' = <<>>
    /\ pc' = "walk"
    /\ walkPos' = 0
    /\ toplevelNodes' = <<>>
    /\ topIdx' = 1
    /\ stack' = <<>>
    /\ origin' = <<>>
    /\ created' = <<>>
    /\ visited' = {}
    /\ calls' = calls + 1
    /\ upstream' = "ok"
    /\ ret' = NoReturn
    /\ first' = IF calls = 1
                THEN [tree |-> tree, baseURL |-> baseURL, heap |-> heap, items |-> items]
                ELSE first

InitCalls ==
    /\ baseURL = "http://e/"
    /\ Begin(Docs(CallNodes, CallProfiles))

NextCalls == Next \/ ParseHTMLAgain

SpecCalls == InitCalls /\ [][NextCalls]_vars

InitKind ==
    /\ baseURL = "http://e/"
    /\ Begin(Docs(NumNodes, KindProfiles))

SpecKind == InitKind /\ [][Next]_vars

InitNest ==
    /\ baseURL = "http://e/"
    /\ Begin(Docs(NestNodes, NestProfiles))

SpecNest == InitNest /\ [][Next]_vars

InitText ==
    /\ baseURL = "http://e/"
    /\ Begin(Docs(TextNodes, TextProfiles))

SpecText == InitText /\ [][Next]_vars

InitTok ==
    /\ baseURL = "http://e/"
    /\ Begin(Docs(TokNodes, TokProfiles))

SpecTok == InitTok /\ [][Next]_vars

----------------------------------------------------------------------------
(* Vocabulary of the properties *)

ItemIds == 1 .. Len(heap)

Elements == 1 .. Len(tree.parent)

Range(q) == {q[i] : i \in 1 .. Len(q)}

\* every position of every property value list
Slots ==
    UNION {UNION {{[item |-> k, name |-> nm, j |-> j] :
                        j \in 1 .. Len(heap[k].Properties[nm])} :
                  nm \in DOMAIN heap[k].Properties} :
           k \in ItemIds}

ValueAt(s) == heap[s.item].Properties[s.name][s.j]

OriginAt(s) == origin[s.item][s.name][s.j]

SlotsOf(k) == {s \in Slots : ValueAt(s) = ItemValue(k)}

Count(q, x) == Cardinality({i \in 1 .. Len(q) : q[i] = x})

StrictlyInside(n, r) == n # r /\ InSubtree(tree, n, r)

\* the elements in document order that satisfy P
RECURSIVE Ascending(_)
Ascending(S) ==
    IF S = {} THEN <<>>
    ELSE LET m == CHOOSE x \in S : \A y \in S : x <= y
         IN <<m>> \o Ascending(S \ {m})

ReadItemDepth == Cardinality({i \in 1 .. Len(stack) : stack[i].fn = "readItem"})

NestingDepth ==
    LET D == {DepthOf(tree.parent, n) : n \in NodeIds(tree)}
    IN CHOOSE d \in D : \A e \in D : e <= d

----------------------------------------------------------------------------
(* C1 *)

\* C1: parse() never exhausts the stack, and there are never more readItem
\* calls in progress than the document tree is deep, also when the tokens of
\* itemref attributes lead back to a node that is being read.
C1_RecursionBounded == pc # "overflow" /\ ReadItemDepth <= NestingDepth

----------------------------------------------------------------------------
(* C2 *)

CarriesName(n, nm) == hasProp(n) /\ nm \in Range(propNames(n))

\* n is a property of the item of root r by position: below r, with no
\* other scope between them
OwnedBy(n, r) ==
    /\ StrictlyInside(n, r)
    /\ \A y \in Elements : StrictlyInside(n, y) /\ StrictlyInside(y, r) => ~hasScope(y)

YieldsValue(n) == hasScope(n) \/ getValue(tree, baseURL, n) # ""

\* C2: in a document with exactly one scope root, a property name that
\* exactly one node carries, that node being one of the root's own
\* descendants and yielding a value, has exactly one value in the root's
\* Item, whatever the root's itemref names.
C2_OnePropertyOneValue ==
    (pc = "done" /\ Len(toplevelNodes) = 1) =>
        \A x \in Elements : \A nm \in Range(propNames(x)) :
            ( /\ nm # ""
              /\ \A y \in Elements : CarriesName(y, nm) => y = x
              /\ Count(propNames(x), nm) = 1
              /\ OwnedBy(x, toplevelNodes[1])
              /\ YieldsValue(x) )
            => Len(Lookup(heap[items[1]].Properties, nm)) = 1

----------------------------------------------------------------------------
(* C5 *)

Nested(k) == created[k].parent # 0

\* C5 as stated: in the finished model every nested Item is in exactly one
\* position of one property value list, and no top-level Item is in any.
C5_ExactlyOneSlot ==
    pc = "done" =>
        /\ \A k \in ItemIds : Nested(k) => Cardinality(SlotsOf(k)) = 1
        /\ \A k \in Range(items) : SlotsOf(k) = {}

\* C5 amended: a nested Item is only ever in the property lists of the Item
\* that was being built when its node was read, in the finished model once
\* for every non-empty token of that node's itemprop, and no Item that is a
\* property value is in the top-level Items list.
C5_OneOwner ==
    /\ \A k \in ItemIds : \A s \in SlotsOf(k) :
            /\ Nested(k)
            /\ s.item = created[k].parent
            /\ s.item # k
            /\ OriginAt(s).node = created[k].node
            /\ k \notin Range(items)
    /\ pc = "done" =>
            \A k \in ItemIds : Nested(k) =>
                \A nm \in Range(propNames(created[k].node)) \ {""} :
                    Cardinality({s \in SlotsOf(k) : s.name = nm})
                        = Count(propNames(created[k].node), nm)

\* a finished model in which one nested Item is under two property names
C5_Witness ==
    /\ pc = "done"
    /\ \E k \in ItemIds : \E s, u \in SlotsOf(k) : s.name # u.name

----------------------------------------------------------------------------
(* C6 *)

RefVisits == {v \in visited : v.via = "ref"}

\* what the token that led to visit v has added to the item v reads into
Through(v) == {s \in Slots : s.item = v.item /\ OriginAt(s).ref = v.ref}

NestedFor(v, s) ==
    /\ ValueAt(s).kind = "item"
    /\ OriginAt(s).node = v.node
    /\ created[ValueAt(s).item].node = v.node

\* C6 as stated: every itemref token that resolves to a node with itemscope
\* adds a nested Item for that node to the referencing item and nothing else.
C6_RefScopeAlwaysNests ==
    pc = "done" =>
        \A v \in RefVisits : hasScope(v.node) =>
            /\ \E s \in Through(v) : NestedFor(v, s)
            /\ \A s \in Through(v) : NestedFor(v, s)

\* C6 amended: a token that resolves to a node with itemscope and itemprop
\* adds a nested Item under every non-empty token of that itemprop; a token
\* that resolves to a node with itemscope and no itemprop adds nothing; in
\* neither case does a value of the referenced scope reach the referencing item.
C6_RefScopeNeverFlattened ==
    pc = "done" =>
        \A v \in RefVisits : hasScope(v.node) =>
            /\ \A s \in Through(v) : NestedFor(v, s)
            /\ hasProp(v.node) =>
                    \A nm \in Range(propNames(v.node)) \ {""} :
                        \E s \in Through(v) : s.name = nm
            /\ ~hasProp(v.node) => Through(v) = {}

\* a finished model whose item referenced a scope without itemprop that has
\* a property node inside, and a scope with itemprop
C6_Witness ==
    /\ pc = "done"
    /\ \E v \in RefVisits :
            /\ hasScope(v.node) /\ ~hasProp(v.node)
            /\ \E x \in Elements : StrictlyInside(x, v.node) /\ hasProp(x)
    /\ \E v \in RefVisits : hasScope(v.node) /\ hasProp(v.node)

----------------------------------------------------------------------------
(* C7 *)

\* C7: the top-level Items list of the finished model has exactly one Item
\* for each node with itemscope and without itemprop, in document order of
\* those nodes, and nothing else.
C7_TopLevelItems ==
    pc = "done" =>
        LET expected == Ascending({n \in Elements : hasScope(n) /\ ~hasProp(n)})
        IN /\ Len(items) = Len(expected)
           /\ \A i \in 1 .. Len(items) :
                /\ created[items[i]] = [node |-> expected[i], parent |-> 0]
                /\ \A j \in 1 .. Len(items) : items[i] = items[j] => i = j

\* a finished model with a top-level Item for a scope inside another scope
C7_Witness ==
    /\ pc = "done"
    /\ \E i, j \in 1 .. Len(items) :
            StrictlyInside(created[items[j]].node, created[items[i]].node)

----------------------------------------------------------------------------
(* C8 *)

BothMarkers(n) == hasScope(n) /\ hasProp(n)

\* C8: whatever a node with itemscope and itemprop adds to the item being
\* built is a nested Item created for that node, never a string; no
\* top-level Item is created for such a node; and in the finished model the
\* item it was visited for holds such a nested Item under every property
\* name the node lists.
C8_BothMarkersNest ==
    /\ \A s \in Slots : BothMarkers(OriginAt(s).node) =>
            /\ ValueAt(s).kind = "item"
            /\ created[ValueAt(s).item].node = OriginAt(s).node
    /\ \A k \in Range(items) : ~BothMarkers(created[k].node)
    /\ pc = "done" =>
            \A v \in visited : BothMarkers(v.node) =>
                \A nm \in Range(propNames(v.node)) \ {""} :
                    \E s \in Slots :
                        /\ s.item = v.item /\ s.name = nm
                        /\ OriginAt(s) = [node |-> v.node, ref |-> v.ref]
                        /\ ValueAt(s).kind = "item"

\* a finished model with a nested Item for a node that contains text
C8_Witness ==
    /\ pc = "done"
    /\ \E s \in Slots :
            /\ BothMarkers(OriginAt(s).node)
            /\ TextOf(tree, walkNodes(tree, OriginAt(s).node)) # ""

----------------------------------------------------------------------------
(* C9 *)

InnerScope(v) ==
    /\ hasScope(v.node) /\ ~hasProp(v.node)
    /\ created[v.item].node # v.node

\* the node the r-th itemref token of item k's node resolves to, -1 when
\* there is none
RefTarget(k, r) ==
    LET tokens == Split(getAttr("itemref", Node(tree, created[k].node)).val)
    IN IF r \in 1 .. Len(tokens) /\ tokens[r] \in DOMAIN identifiedNodes
       THEN identifiedNodes[tokens[r]] ELSE -1

\* C9 as stated: once item I has reached a node N with itemscope and without
\* itemprop that is not I's own root, no value of I comes from a node of
\* N's subtree.
C9_NothingFromInnerScope ==
    \A v \in visited : InnerScope(v) =>
        \A s \in Slots :
            s.item = v.item => ~StrictlyInside(OriginAt(s).node, v.node)

\* where the descent that led to the value in slot s began: the root of the
\* item, or the node the itemref token resolves to
DescentStart(s) ==
    IF OriginAt(s).ref = 0 THEN created[s.item].node
    ELSE RefTarget(s.item, OriginAt(s).ref)

\* C9 amended: readItem descends from a node with itemscope and without
\* itemprop only in the top-level call for that very node, so reaching such
\* a node N from item I reads none of N's children into I.  Every value of I
\* comes from a node reached from I's root, or from the node an itemref token
\* of I resolves to, by a descent that passes through no node with itemscope;
\* a node of N's subtree contributes to I only on such a path, which starts
\* inside N.
C9_NoDescentIntoInnerScope ==
    /\ \A v \in visited :
            (v.via = "child" /\ hasScope(v.from) /\ ~hasProp(v.from)) =>
                v.fromTop /\ created[v.item].node = v.from
    /\ \A s \in Slots :
            /\ InSubtree(tree, OriginAt(s).node, DescentStart(s))
            /\ \A y \in Elements :
                    ( /\ StrictlyInside(OriginAt(s).node, y)
                      /\ InSubtree(tree, y, DescentStart(s))
                      /\ (y # DescentStart(s) \/ OriginAt(s).ref # 0) )
                    => ~hasScope(y)
    /\ \A v \in visited : InnerScope(v) =>
            \A s \in Slots :
                (s.item = v.item /\ StrictlyInside(OriginAt(s).node, v.node)) =>
                    StrictlyInside(DescentStart(s), v.node)

\* a finished model in which the descent from an item's root reached an inner
\* scope that has a property node inside
C9_Witness ==
    /\ pc = "done"
    /\ \E v \in visited :
            /\ InnerScope(v) /\ v.via = "child"
            /\ \E x \in Elements : StrictlyInside(x, v.node) /\ hasProp(x) /\ YieldsValue(x)

----------------------------------------------------------------------------
(* C10 *)

\* C10: the values the itemref tokens of an item add under one property name
\* are in token order: a value that came through token r comes from the
\* subtree of the node token r resolves to, and never precedes a value that
\* came through an earlier token.
C10_TokenOrder ==
    \A k \in ItemIds : \A nm \in DOMAIN origin[k] :
        \A j \in 1 .. Len(origin[k][nm]) :
            origin[k][nm][j].ref # 0 =>
                /\ InSubtree(tree, origin[k][nm][j].node, RefTarget(k, origin[k][nm][j].ref))
                /\ \A i \in 1 .. j - 1 :
                        origin[k][nm][i].ref # 0 =>
                            origin[k][nm][i].ref <= origin[k][nm][j].ref

\* a finished model with two values under one name that came through two
\* tokens, the earlier token's node being later in the document
C10_Witness ==
    /\ pc = "done"
    /\ \E k \in ItemIds : \E nm \in DOMAIN origin[k] :
            \E i, j \in 1 .. Len(origin[k][nm]) :
                /\ i < j
                /\ origin[k][nm][i].ref # 0
                /\ origin[k][nm][i].ref < origin[k][nm][j].ref
                /\ origin[k][nm][i].node > origin[k][nm][j].node

----------------------------------------------------------------------------
(* C3 *)

\* the attribute an element kind takes its value from, "" for the other kinds
SourceAttr(a) ==
    CASE a = "meta" -> "content"
      [] a \in {"audio", "embed", "iframe", "img", "source", "track", "video"} -> "src"
      [] a \in {"a", "area", "link"} -> "href"
      [] a \in {"data", "meter"} -> "value"
      [] a = "time" -> "datetime"
      [] OTHER -> ""

PlainProp(n) == hasProp(n) /\ ~hasScope(n)

HasEmptySource(n) ==
    LET nd == Node(tree, n)
    IN /\ SourceAttr(nd.DataAtom) # ""
       /\ getAttr(SourceAttr(nd.DataAtom), nd).ok
       /\ Str(getAttr(SourceAttr(nd.DataAtom), nd).val) = ""

HasEmptyText(n) ==
    /\ SourceAttr(Node(tree, n).DataAtom) = ""
    /\ TextOf(tree, walkNodes(tree, n)) = ""

\* what visit v of node v.node has added to the item it reads into
AddedBy(v) ==
    {s \in Slots : s.item = v.item /\ OriginAt(s) = [node |-> v.node, ref |-> v.ref]}

\* C3: in the finished model a visited property node without itemscope
\* whose kind takes its value from an attribute that is present and empty has
\* added the empty string under each of its property names, and one of
\* another kind whose text is empty has added nothing.
C3_EmptyAttributeEmitted ==
    pc = "done" =>
        \A v \in visited : PlainProp(v.node) =>
            /\ HasEmptySource(v.node) =>
                    \A nm \in Range(propNames(v.node)) \ {""} :
                        \E s \in AddedBy(v) : s.name = nm /\ ValueAt(s) = StringValue("")
            /\ HasEmptyText(v.node) => AddedBy(v) = {}

----------------------------------------------------------------------------
(* C4 *)

ResolvedItemid(n) == URLParse(baseURL, Str(getAttr("itemid", Node(tree, n)).val))

HasResolvingItemid(n) == getAttr("itemid", Node(tree, n)).ok /\ ~ResolvedItemid(n).err

\* C4 as stated: in the finished model the Item of a scope node whose itemid
\* resolves has the resolved itemid as Id, with or without an itemtype
\* attribute, and the Item of a node without itemid has the empty Id.
C4_IdWheneverItemid ==
    pc = "done" =>
        \A k \in ItemIds :
            /\ HasResolvingItemid(created[k].node) =>
                    heap[k].Id = ResolvedItemid(created[k].node).str
            /\ ~getAttr("itemid", Node(tree, created[k].node)).ok => heap[k].Id = ""

\* C4 amended: the Item of a scope node that carries an itemtype attribute
\* (whatever Types it yields, none included) and an itemid that resolves has
\* the resolved itemid as Id; the Item of a node without itemtype attribute,
\* without itemid, or with an itemid that does not resolve has the empty Id.
C4_IdOnlyWithItemtype ==
    pc = "done" =>
        \A k \in ItemIds :
            heap[k].Id =
                IF /\ getAttr("itemtype", Node(tree, created[k].node)).ok
                   /\ HasResolvingItemid(created[k].node)
                THEN ResolvedItemid(created[k].node).str
                ELSE ""

\* a finished model with an Item that has an Id and no type, a nested Item
\* among them, and an Item without Id for a node with itemid
C4_Witness ==
    /\ pc = "done"
    /\ \E k \in ItemIds : heap[k].Types = <<>> /\ heap[k].Id # "" /\ Nested(k)
    /\ \E k \in ItemIds : HasResolvingItemid(created[k].node) /\ heap[k].Id = ""

----------------------------------------------------------------------------
(* C11 *)

IdOf(n) == getAttr("id", Node(tree, n))

WithId(tok) == {n \in Elements : IdOf(n).ok /\ Str(IdOf(n).val) = tok}

\* the last node in document order whose id is tok, -1 when there is none
LastWithId(tok) ==
    IF WithId(tok) = {} THEN -1
    ELSE CHOOSE n \in WithId(tok) : \A m \in WithId(tok) : m <= n

\* the tokens of the itemref attribute of the node item k was created for
RefTokens(k) == Split(getAttr("itemref", Node(tree, created[k].node)).val)

\* x is start or lies below it with no node carrying itemscope from start
\* down to x's parent
Reachable(x, start) ==
    /\ InSubtree(tree, x, start)
    /\ \A y \in Elements :
            (y # x /\ InSubtree(tree, x, y) /\ InSubtree(tree, y, start)) => ~hasScope(y)

\* every id of the document is in the index once the first pass is over, and
\* no Item exists before that
IndexBuiltFirst ==
    /\ heap # <<>> => pc # "walk"
    /\ pc # "walk" =>
            \A n \in Elements : IdOf(n).ok => Str(IdOf(n).val) \in DOMAIN identifiedNodes

\* C11 as stated: the id index is complete before the first Item is made, and
\* in the finished model every property node in the subtree of the node an
\* itemref token names has added a value to the referencing item.
C11_WholeSubtreeAttaches ==
    /\ IndexBuiltFirst
    /\ pc = "done" =>
            \A k \in ItemIds : \A r \in 1 .. Len(RefTokens(k)) :
                (RefTokens(k)[r] # "" /\ LastWithId(RefTokens(k)[r]) # -1) =>
                    \A x \in Elements :
                        (InSubtree(tree, x, LastWithId(RefTokens(k)[r])) /\ hasProp(x)) =>
                            \E s \in Slots : s.item = k /\ OriginAt(s).node = x

\* C11 amended: the id index is complete before the first Item is made, so
\* a token resolves wherever its node lies; in the finished model every
\* property node that yields a value and is the named node or lies below it
\* with no node carrying itemscope above it in that subtree has added a value
\* to the referencing item under each of its names, and nothing else has been
\* added through that token: property nodes below such a scope are not
\* attached to the referencing item.
C11_ReachableSubtreeAttaches ==
    /\ IndexBuiltFirst
    /\ pc = "done" =>
            \A k \in ItemIds : \A r \in 1 .. Len(RefTokens(k)) :
                (RefTokens(k)[r] # "" /\ LastWithId(RefTokens(k)[r]) # -1) =>
                    /\ \A x \in Elements :
                            ( /\ Reachable(x, LastWithId(RefTokens(k)[r]))
                              /\ hasProp(x)
                              /\ YieldsValue(x) ) =>
                                \A nm \in Range(propNames(x)) \ {""} :
                                    \E s \in Slots :
                                        /\ s.item = k /\ s.name = nm
                                        /\ OriginAt(s) = [node |-> x, ref |-> r]
                    /\ \A s \in Slots :
                            (s.item = k /\ OriginAt(s).ref = r) =>
                                Reachable(OriginAt(s).node, LastWithId(RefTokens(k)[r]))

\* a finished model whose item took a value from a node before its own node
\* and one from a node after it, both outside every scope
C11_Witness ==
    /\ pc = "done"
    /\ \E k \in ItemIds : \E s, u \in Slots :
            /\ s.item = k /\ u.item = k
            /\ OriginAt(s).ref # 0 /\ OriginAt(u).ref # 0
            /\ OriginAt(s).node < created[k].node
            /\ OriginAt(u).node > created[k].node
            /\ ~InSubtree(tree, OriginAt(u).node, created[k].node)
            /\ \A y \in Elements :
                    (InSubtree(tree, OriginAt(s).node, y) \/ InSubtree(tree, OriginAt(u).node, y))
                        => ~hasScope(y)

----------------------------------------------------------------------------
(* C12 *)

Carriers(nm) == {x \in Elements : CarriesName(x, nm)}

\* the carriers of nm are sibling elements without itemscope whose itemprop
\* is the single token nm, all properties of root r by position
SiblingsUnder(nm, r) ==
    /\ Carriers(nm) # {}
    /\ \A x \in Carriers(nm) :
            /\ PlainProp(x)
            /\ propNames(x) = <<nm>>
            /\ OwnedBy(x, r)
            /\ \A y \in Carriers(nm) : tree.parent[x] = tree.parent[y]

\* C12: in a document with one scope root, when the nodes that carry a
\* property token are N sibling elements without itemscope under that root,
\* each with that single token, the root's Item has exactly N values under
\* the token, the siblings' values in document order.
C12_SiblingsInOrder ==
    (pc = "done" /\ Len(toplevelNodes) = 1) =>
        \A z \in Elements : \A nm \in Range(propNames(z)) \ {""} :
            SiblingsUnder(nm, toplevelNodes[1]) =>
                LET sibs == Ascending(Carriers(nm))
                    vals == Lookup(heap[items[1]].Properties, nm)
                IN /\ Len(vals) = Len(sibs)
                   /\ \A i \in 1 .. Len(sibs) :
                        vals[i] = StringValue(getValue(tree, baseURL, sibs[i]))

----------------------------------------------------------------------------
(* C13 *)

KindOf(n) == Node(tree, n).DataAtom

\* the value of n's attribute key, "" when n has none
AttrString(n, key) ==
    IF getAttr(key, Node(tree, n)).ok THEN Str(getAttr(key, Node(tree, n)).val) ELSE ""

TextContent(n) == TextOf(tree, walkNodes(tree, n))

\* every value visit v has added is the string e, under each name when e is
\* not empty
AddedExactly(v, e) ==
    /\ \A s \in AddedBy(v) : ValueAt(s) = StringValue(e)
    /\ e # "" => \A nm \in Range(propNames(v.node)) \ {""} :
                    \E s \in AddedBy(v) : s.name = nm

\* C13: in the finished model a visited property node without itemscope of
\* kind meta, data, meter or time has added the value of its content, value,
\* value or datetime attribute and not its text, and one of a kind outside
\* the dispatch table, unknown element names included, has added its text
\* content.
C13_ValueByKind ==
    pc = "done" =>
        \A v \in visited : PlainProp(v.node) =>
            /\ KindOf(v.node) = "meta" => AddedExactly(v, AttrString(v.node, "content"))
            /\ KindOf(v.node) \in {"data", "meter"} => AddedExactly(v, AttrString(v.node, "value"))
            /\ KindOf(v.node) = "time" => AddedExactly(v, AttrString(v.node, "datetime"))
            /\ SourceAttr(KindOf(v.node)) = "" => AddedExactly(v, TextContent(v.node))

\* a finished model with a value of a data element that contains text
C13_Witness ==
    /\ pc = "done"
    /\ \E v \in visited :
            /\ PlainProp(v.node)
            /\ KindOf(v.node) = "data"
            /\ TextContent(v.node) # ""
            /\ AddedBy(v) # {}

----------------------------------------------------------------------------
(* C14 *)

\* n's kind takes its value from an attribute that n lacks or, for the URL
\* kinds, that does not resolve
SourceFails(n) ==
    /\ SourceAttr(KindOf(n)) # ""
    /\ \/ ~getAttr(SourceAttr(KindOf(n)), Node(tree, n)).ok
       \/ /\ SourceAttr(KindOf(n)) \in {"src", "href"}
          /\ URLParse(baseURL, AttrString(n, SourceAttr(KindOf(n)))).err

\* readItem was called for node c from the call v records, for the same item
ReadFrom(c, v) ==
    \E w \in visited :
        /\ w.via = "child" /\ w.node = c /\ w.from = v.node
        /\ w.item = v.item /\ w.ref = v.ref

\* C14: in the finished model a visited property node without itemscope
\* whose source attribute is missing or does not resolve has added nothing,
\* its text included, and its children and its siblings were read for the
\* same item.
C14_FailedSourceOmitted ==
    pc = "done" =>
        \A v \in visited : (PlainProp(v.node) /\ SourceFails(v.node)) =>
            /\ AddedBy(v) = {}
            /\ \A c \in Range(Children(tree, v.node)) : ReadFrom(c, v)
            /\ v.via = "child" =>
                    \A c \in Range(Children(tree, tree.parent[v.node])) :
                        \E w \in visited :
                            /\ w.via = "child" /\ w.node = c /\ w.from = v.from
                            /\ w.item = v.item /\ w.ref = v.ref

\* a finished model in which a node whose source failed contains text, and
\* the text node below it was read for the same item
C14_Witness ==
    /\ pc = "done"
    /\ \E v \in visited :
            /\ PlainProp(v.node) /\ SourceFails(v.node)
            /\ TextContent(v.node) # ""
            /\ \E c \in Range(Children(tree, v.node)) :
                    Node(tree, c).Type = "text" /\ ReadFrom(c, v)

----------------------------------------------------------------------------
(* C15 *)

\* the maximal space-free runs of an attribute value, in order
RECURSIVE Runs(_, _)
Runs(v, cur) ==
    IF v = <<>> THEN (IF cur = "" THEN <<>> ELSE <<cur>>)
    ELSE IF Head(v) = " " THEN (IF cur = "" THEN <<>> ELSE <<cur>>) \o Runs(Tail(v), "")
    ELSE Runs(Tail(v), cur \o Head(v))

ItemtypeOf(k) == getAttr("itemtype", Node(tree, created[k].node))

\* C15: in the finished model the Types of every Item are the non-empty
\* space-separated tokens of its node's itemtype attribute, in attribute
\* order with repetitions kept, and none when the attribute is missing or
\* holds only spaces.
C15_TypesAreTokens ==
    pc = "done" =>
        \A k \in ItemIds :
            /\ heap[k].Types = Runs(ItemtypeOf(k).val, "")
            /\ ~ItemtypeOf(k).ok => heap[k].Types = <<>>
            /\ (\A i \in 1 .. Len(ItemtypeOf(k).val) : ItemtypeOf(k).val[i] = " ")
                    => heap[k].Types = <<>>

\* a finished model with an Item whose Types repeat a token, from an
\* attribute with two spaces in a row, and an Item without Types whose
\* itemtype holds only spaces
C15_Witness ==
    /\ pc = "done"
    /\ \E k \in ItemIds :
            /\ \E i, j \in 1 .. Len(heap[k].Types) : i < j /\ heap[k].Types[i] = heap[k].Types[j]
            /\ Len(ItemtypeOf(k).val) > 2 * Len(heap[k].Types) - 1
    /\ \E k \in ItemIds :
            ItemtypeOf(k).ok /\ ItemtypeOf(k).val # <<>> /\ heap[k].Types = <<>>

----------------------------------------------------------------------------
(* C16 *)

\* the r-th itemref token of item k is empty or names no id of the document
Skipped(k, r) == RefTokens(k)[r] = "" \/ LastWithId(RefTokens(k)[r]) = -1

\* C16: parse() does not fail on an itemref token that is empty or matches
\* no id; in the finished model such a token has caused no readItem call and
\* has added nothing to the item, every other token of the same list has had
\* its node read for the item, and the children of the item's own node were
\* read for it.
C16_UnusableTokenSkipped ==
    /\ pc # "overflow"
    /\ pc = "done" =>
            \A k \in ItemIds :
                /\ \A r \in 1 .. Len(RefTokens(k)) :
                        IF Skipped(k, r)
                        THEN /\ ~\E w \in RefVisits : w.item = k /\ w.ref = r
                             /\ ~\E s \in Slots : s.item = k /\ OriginAt(s).ref = r
                        ELSE \E w \in RefVisits :
                                /\ w.item = k /\ w.ref = r
                                /\ w.node = LastWithId(RefTokens(k)[r])
                /\ \A c \in Range(Children(tree, created[k].node)) :
                        \E w \in visited :
                            /\ w.via = "child" /\ w.node = c
                            /\ w.item = k /\ w.from = created[k].node

\* a finished model whose item has a token without id and an empty token
\* before a token that added a value, and a value from its own children
C16_Witness ==
    /\ pc = "done"
    /\ \E k \in ItemIds : \E r1, r2, r3 \in 1 .. Len(RefTokens(k)) :
            /\ r1 < r3 /\ r2 < r3
            /\ RefTokens(k)[r1] = ""
            /\ RefTokens(k)[r2] # "" /\ LastWithId(RefTokens(k)[r2]) = -1
            /\ \E s \in Slots : s.item = k /\ OriginAt(s).ref = r3
            /\ \E s \in Slots : s.item = k /\ OriginAt(s).ref = 0

----------------------------------------------------------------------------
(* C17 *)

\* C17: once the first pass is over, the id index maps every id value of
\* the document to the last node in document order that carries it, and
\* every readItem call made for an itemref token is for that last node.
C17_LastIdWins ==
    /\ pc # "walk" =>
            /\ DOMAIN identifiedNodes = {Str(IdOf(n).val) : n \in {m \in Elements : IdOf(m).ok}}
            /\ \A tok \in DOMAIN identifiedNodes : identifiedNodes[tok] = LastWithId(tok)
    /\ \A w \in RefVisits :
            /\ w.from = created[w.item].node
            /\ w.node = LastWithId(RefTokens(w.item)[w.ref])

\* a finished model in which two property nodes carry the id of a token
\* that added a value
C17_Witness ==
    /\ pc = "done"
    /\ \E w \in RefVisits :
            /\ \E n \in WithId(RefTokens(w.item)[w.ref]) : n # w.node /\ PlainProp(n)
            /\ \E s \in Slots : s.item = w.item /\ OriginAt(s) = [node |-> w.node, ref |-> w.ref]

----------------------------------------------------------------------------
(* C18 *)

\* the top-level Item under which Item k was created
RECURSIVE TopOf(_)
TopOf(k) == IF created[k].parent = 0 THEN k ELSE TopOf(created[k].parent)

Building == pc \in {"readAttr", "readItem"}

\* a step taken while a top-level item is built changes only Items created
\* under that item, creates Items only under it, and leaves the node tree,
\* the base URL, the id index, the list of roots and the Items list alone; a
\* step of parse() between two items changes no existing Item
OwnItemsOnly ==
    IF Building
    THEN /\ \A k \in 1 .. Len(heap) :
                heap'[k] # heap[k] => TopOf(k) = items[Len(items)]
         /\ \A k \in (Len(heap) + 1) .. Len(heap') :
                /\ created'[k].parent \in 1 .. Len(heap)
                /\ TopOf(created'[k].parent) = items[Len(items)]
         /\ <<tree, baseURL, identifiedNodes, toplevelNodes, items>>'
                = <<tree, baseURL, identifiedNodes, toplevelNodes, items>>
    ELSE \A k \in 1 .. Len(heap) : heap'[k] = heap[k]

----------------------------------------------------------------------------
(* C19 *)

\* the call that created Item k has not returned: for a nested Item the
\* readItem call that allocated it, for a top-level Item the iteration of
\* parse() that allocated it
Live(k) ==
    IF Nested(k)
    THEN \E i \in 1 .. Len(stack) : stack[i].fn = "readItem" /\ stack[i].sub = k
    ELSE Building /\ k = items[Len(items)]

\* a step changes an Item only while the call that created it is running,
\* and a new Item starts empty
OnlyLiveItemsChange ==
    /\ \A k \in 1 .. Len(heap) : heap'[k] # heap[k] => Live(k)
    /\ \A k \in (Len(heap) + 1) .. Len(heap') : heap'[k] = NewItem

\* C19: an Item, top-level or nested, gets its Types, Id and property
\* values only between its creation and the return of the call that created
\* it; no later step of the parse changes it.
C19_NoChangeAfterReturn == [][OnlyLiveItemsChange]_vars

\* a finished model with a nested Item that holds values and was complete
\* before another nested Item was created
C19_Witness ==
    /\ pc = "done"
    /\ \E k, m \in ItemIds :
            /\ k < m /\ Nested(k) /\ Nested(m)
            /\ created[m].parent # k
            /\ DOMAIN heap[k].Properties # {}
            /\ DOMAIN heap[m].Properties # {}

----------------------------------------------------------------------------
(* C20 *)

\* C20: every invocation starts with an empty id index and an empty model;
\* the index never holds an id that no node of the invocation's own document
\* carries; and an invocation on the document and base URL of the first one
\* returns the model the first one returned, whatever was parsed in between.
C20_FreshPerInvocation ==
    /\ (pc = "walk" /\ walkPos = 0) =>
            identifiedNodes = <<>> /\ items = <<>> /\ heap = <<>>
    /\ \A tok \in DOMAIN identifiedNodes : identifiedNodes[tok] \in WithId(tok)
    /\ \A k \in Range(items) : k \in ItemIds /\ created[k].node \in Elements
    /\ (pc = "done" /\ calls > 1 /\ tree = first.tree /\ baseURL = first.baseURL) =>
            (heap = first.heap /\ items = first.items)

\* a finished second invocation whose document refers to an id that only
\* the first document carried, and whose Item holds values
C20_Witness ==
    /\ pc = "done"
    /\ calls = 2
    /\ \E k \in ItemIds : \E r \in 1 .. Len(RefTokens(k)) :
            /\ LastWithId(RefTokens(k)[r]) = -1
            /\ \E n \in 1 .. Len(first.tree.parent) :
                    /\ getAttr("id", first.tree.node[n]).ok
                    /\ Str(getAttr("id", first.tree.node[n]).val) = RefTokens(k)[r]
            /\ DOMAIN heap[k].Properties # {}

----------------------------------------------------------------------------
(* C21 *)

\* ParseHTML has returned
Returned == pc \in {"done", "failed"}

\* C21: ParseHTML returns a nil model and the error exactly when
\* charset.NewReader or html.Parse fails, and then before any node was
\* visited; otherwise it returns a model and a nil error; and the traversal
\* of the node tree never fails.
C21_ModelOrUpstreamError ==
    /\ pc # "overflow"
    /\ upstream # "ok" => pc \in {"new", "failed"}
    /\ upstream = "ok" => pc \notin {"new", "failed"}
    /\ pc = "failed" =>
            /\ ret = [model |-> "nil", err |-> upstream]
            /\ walkPos = 0 /\ visited = {} /\ heap = <<>>
    /\ pc = "done" => ret = [model |-> "data", err |-> "nil"]
    /\ ~Returned => ret = NoReturn

----------------------------------------------------------------------------
(* C22 *)

\* C22: in the finished model, for every visit of a property node without
\* itemscope, value or no value, each child of the node was read for the same
\* item, and every property node below it that yields a value, with no node
\* carrying itemscope above it on the way, has added its value to that item
\* under each of its names, after the values the visited node itself added
\* under that name.
C22_DescendsUnderSameItem ==
    pc = "done" =>
        \A v \in visited : PlainProp(v.node) =>
            /\ \A c \in Range(Children(tree, v.node)) : ReadFrom(c, v)
            /\ \A x \in Elements :
                    ( /\ StrictlyInside(x, v.node)
                      /\ Reachable(x, v.node)
                      /\ hasProp(x)
                      /\ YieldsValue(x) ) =>
                        \A nm \in Range(propNames(x)) \ {""} :
                            \E sx \in Slots :
                                /\ sx.item = v.item /\ sx.name = nm
                                /\ OriginAt(sx) = [node |-> x, ref |-> v.ref]
                                /\ \A sa \in AddedBy(v) : sa.name = nm => sa.j < sx.j

\* a finished model in which a property node and a property node inside it
\* have both added a value under one name
C22_Witness ==
    /\ pc = "done"
    /\ \E v \in visited : \E sa \in AddedBy(v) : \E sx \in Slots :
            /\ PlainProp(v.node)
            /\ sx.item = v.item /\ sx.name = sa.name
            /\ StrictlyInside(OriginAt(sx).node, v.node)
            /\ PlainProp(OriginAt(sx).node)
            /\ OriginAt(sx).ref = v.ref

----------------------------------------------------------------------------
(* C23 *)

\* the property nodes that are read when readItem starts at node start: start
\* itself or below it with no node carrying itemscope above them, and
\* yielding a value
FoundFrom(start) ==
    {x \in Elements : Reachable(x, start) /\ hasProp(x) /\ YieldsValue(x)}

\* the property nodes that are read as descendants of the scope node n
FoundBelow(n) == {x \in Elements : OwnedBy(x, n) /\ hasProp(x) /\ YieldsValue(x)}

\* the nested Item j holds the values of its node's descendants and of the
\* nodes of its node's reference list
HoldsItsValues(j) ==
    /\ \A x \in FoundBelow(created[j].node) :
            \E s \in Slots : s.item = j /\ OriginAt(s) = [node |-> x, ref |-> 0]
    /\ \A r \in 1 .. Len(RefTokens(j)) :
            (RefTokens(j)[r] # "" /\ LastWithId(RefTokens(j)[r]) # -1) =>
                \A x \in FoundFrom(LastWithId(RefTokens(j)[r])) :
                    \E s \in Slots : s.item = j /\ OriginAt(s) = [node |-> x, ref |-> r]

\* what the item j was created under holds for j's node is j
OnlyEntriesHolding(j) ==
    \A s \in Slots :
        (s.item = created[j].parent /\ OriginAt(s).node = created[j].node) =>
            /\ ValueAt(s).kind = "item"
            /\ created[ValueAt(s).item] = created[j]

\* C23 as stated: in the finished model a nested Item J built for node N
\* under item I holds every property value of N's subtree and of the nodes
\* of N's reference list, I holds none of them, and what I holds for N are
\* entries holding an Item built for N.
C23_NothingOfNestedInOuter ==
    pc = "done" =>
        \A j \in ItemIds : Nested(j) =>
            /\ HoldsItsValues(j)
            /\ OnlyEntriesHolding(j)
            /\ \A s \in Slots :
                    s.item = created[j].parent =>
                        /\ ~StrictlyInside(OriginAt(s).node, created[j].node)
                        /\ \A r \in 1 .. Len(RefTokens(j)) :
                                LastWithId(RefTokens(j)[r]) # -1 =>
                                    OriginAt(s).node \notin FoundFrom(LastWithId(RefTokens(j)[r]))

\* C23 amended: J holds the values of N's descendants that no other scope
\* separates from N and of the nodes of N's reference list; what I holds
\* for N are entries holding an Item built for N; and a value of a node
\* inside N is in I only when a token of I's own reference list names that
\* node or a node above it inside N.
C23_OuterOnlyByOwnReference ==
    pc = "done" =>
        \A j \in ItemIds : Nested(j) =>
            /\ HoldsItsValues(j)
            /\ OnlyEntriesHolding(j)
            /\ \A s \in Slots :
                    (s.item = created[j].parent
                        /\ StrictlyInside(OriginAt(s).node, created[j].node)) =>
                            /\ OriginAt(s).ref # 0
                            /\ StrictlyInside(DescentStart(s), created[j].node)

\* a finished model with a nested Item that holds a value of a child and a
\* value from its own reference list
C23_Witness ==
    /\ pc = "done"
    /\ \E j \in ItemIds : \E s, u \in Slots :
            /\ Nested(j)
            /\ s.item = j /\ u.item = j
            /\ OriginAt(s).ref = 0 /\ OriginAt(u).ref # 0
            /\ OriginAt(s).node # OriginAt(u).node
            /\ SlotsOf(j) # {}

----------------------------------------------------------------------------
(* C24 *)

TextNodesIn(n) == {x \in Elements : InSubtree(tree, x, n) /\ Node(tree, x).Type = "text"}

RECURSIVE Payloads(_)
Payloads(ns) == IF ns = <<>> THEN "" ELSE Node(tree, Head(ns)).Data \o Payloads(Tail(ns))

\* C24: in the finished model the value a visited property node of a kind
\* outside the dispatch table has added is the concatenation, in document
\* order, of the payloads of all text nodes of its subtree, those inside
\* property nodes, nested items and other scopes of the subtree included.
C24_TextOfWholeSubtree ==
    pc = "done" =>
        \A v \in visited :
            (PlainProp(v.node) /\ SourceAttr(KindOf(v.node)) = "") =>
                AddedExactly(v, Payloads(Ascending(TextNodesIn(v.node))))

\* a finished model with a value made of a text that lies inside a node
\* with itemscope or itemprop below the property node
C24_Witness ==
    /\ pc = "done"
    /\ \E v \in visited : \E x \in TextNodesIn(v.node) :
            /\ PlainProp(v.node) /\ SourceAttr(KindOf(v.node)) = ""
            /\ AddedExactly(v, Node(tree, x).Data)
            /\ Node(tree, x).Data # ""
            /\ \E z \in Elements :
                    /\ StrictlyInside(x, z) /\ StrictlyInside(z, v.node)
                    /\ (hasScope(z) \/ hasProp(z))

----------------------------------------------------------------------------
(* C25 *)

\* the slots a visit has filled under one name
AddedUnder(v, nm) == {s \in AddedBy(v) : s.name = nm}

\* the slots lie next to one another in their list
Contiguous(S) == \A s, t \in S : \A j \in s.j .. t.j : \E u \in S : u.j = j

\* C25: in the finished model no value lies under the empty name, and a
\* visited node with itemprop that has added a value has added that one
\* value under each non-empty token of its itemprop and under no other name,
\* as many times as the token occurs and in one run of the list; a node with
\* itemscope and itemprop always adds its Item.
C25_OnceUnderEachToken ==
    pc = "done" =>
        /\ \A s \in Slots : s.name # ""
        /\ \A v \in visited :
            hasProp(v.node) =>
                /\ \A s, t \in AddedBy(v) : ValueAt(s) = ValueAt(t)
                /\ \A s \in AddedBy(v) : s.name \in Range(propNames(v.node))
                /\ (AddedBy(v) # {} \/ hasScope(v.node)) =>
                        \A nm \in Range(propNames(v.node)) \ {""} :
                            /\ Cardinality(AddedUnder(v, nm)) = Count(propNames(v.node), nm)
                            /\ Contiguous(AddedUnder(v, nm))

\* a finished model where a node with itemscope and one without, both with
\* empty tokens and a repeated token in itemprop, have added an Item and a
\* string twice under the repeated name
C25_Witness ==
    /\ pc = "done"
    /\ \E v, w \in visited : \E nm, nw \in {"p", "q"} :
            /\ hasScope(v.node) /\ hasProp(v.node) /\ PlainProp(w.node)
            /\ "" \in Range(propNames(v.node)) /\ "" \in Range(propNames(w.node))
            /\ Count(propNames(v.node), nm) = 2 /\ Cardinality(AddedUnder(v, nm)) = 2
            /\ Count(propNames(w.node), nw) = 2 /\ Cardinality(AddedUnder(w, nw)) = 2
            /\ \E s \in AddedUnder(v, nm) : \E k \in ItemIds : ValueAt(s) = ItemValue(k)

----------------------------------------------------------------------------
(* C26 *)

ThroughRef(s) == OriginAt(s).ref # 0

\* s was appended by a visit that comes no later than the visit of t: a visit
\* through an earlier token of the reference list, or through the same token
\* or both below the scope node and at a node that is no later in the document
NoLater(s, t) ==
    \/ ThroughRef(s) /\ ~ThroughRef(t)
    \/ ThroughRef(s) /\ ThroughRef(t) /\ OriginAt(s).ref < OriginAt(t).ref
    \/ OriginAt(s).ref = OriginAt(t).ref /\ OriginAt(s).node <= OriginAt(t).node

\* C26: in the finished model the values of an Item under one name lie in
\* the order of the visits that appended them: all values read through the
\* Item's reference list, in the order of its tokens, before all values of
\* the scope node's own descendants, and these in document order.
C26_ReferencesFirst ==
    pc = "done" =>
        \A s, t \in Slots :
            (s.item = t.item /\ s.name = t.name /\ s.j < t.j) => NoLater(s, t)

\* a finished model where a value of a node that the reference list names,
\* a node after all descendants of the scope node, lies before a value of a
\* descendant
C26_Witness ==
    /\ pc = "done"
    /\ \E s, t \in Slots :
            /\ s.item = t.item /\ s.name = t.name /\ s.j < t.j
            /\ s.item \in Range(items)
            /\ ThroughRef(s) /\ ~ThroughRef(t)
            /\ OriginAt(s).node > OriginAt(t).node
            /\ StrictlyInside(OriginAt(t).node, created[s.item].node)
            /\ ~InSubtree(tree, OriginAt(s).node, created[s.item].node)

----------------------------------------------------------------------------
(* C27 *)

\* a token of the reference list of the node of Item k resolves to x
Referencing(k, x) ==
    \E tok \in Range(itemrefs(Node(tree, created[k].node))) \ {""} :
        tok \in DOMAIN identifiedNodes /\ identifiedNodes[tok] = x

\* no node with itemscope lies on the way from x down to y, y excluded
OpenPath(x, y) ==
    /\ InSubtree(tree, y, x)
    /\ \A z \in Elements :
            (InSubtree(tree, z, x) /\ StrictlyInside(y, z)) => ~hasScope(z)

HasName(y) == Range(propNames(y)) \ {""} # {}

----------------------------------------------------------------------------
(* C28 *)

TopLevelRoots == {n \in Elements : hasScope(n) /\ ~hasProp(n)}

\* the nodes the reference list of a node with itemscope resolves to
Named(n) ==
    {LastWithId(tok) : tok \in {t \in Range(itemrefs(Node(tree, n))) \ {""} : WithId(t) # {}}}

\* one more step from the nodes of S: their children, and the nodes named by
\* those of them that carry itemscope
OneStep(S) ==
    S \cup {x \in Elements : tree.parent[x] \in S}
      \cup UNION {Named(n) : n \in {m \in S : hasScope(m)}}

\* the nodes that lie in a scope's subtree or can be reached through
\* reference lists, starting from the top-level roots
RECURSIVE Closure(_)
Closure(S) == IF OneStep(S) = S THEN S ELSE Closure(OneStep(S))

WithinReach == Closure(TopLevelRoots)

\* C28: at every moment every Item is either the Item of a top-level root,
\* listed in Items, or was built for a node with itemscope and itemprop
\* under an earlier Item, and every node that was visited, that an Item was
\* built for or that a value comes from lies in the subtree of a top-level
\* root or is reached from one through reference lists: a node out of that
\* reach contributes nothing and yields no Item.
C28_OnlyFromTopLevelRoots ==
    pc # "walk" =>
        LET reach == WithinReach
        IN /\ \A j \in ItemIds :
                \/ /\ created[j].parent = 0
                   /\ created[j].node \in TopLevelRoots
                   /\ j \in Range(items)
                \/ /\ created[j].parent \in 1 .. (j - 1)
                   /\ hasScope(created[j].node) /\ hasProp(created[j].node)
                   /\ j \notin Range(items)
           /\ \A j \in ItemIds : created[j].node \in reach
           /\ \A v \in visited : v.node \in reach
           /\ \A s \in Slots : OriginAt(s).node \in reach

\* inside no subtree of a node with itemscope and named by no reference list
OutOfEveryScope(x) ==
    \A n \in Elements \ {x} : hasScope(n) => (~InSubtree(tree, x, n) /\ x \notin Named(n))

\* a finished model with an Item and a value in it, and outside every scope
\* and every reference list a node with itemscope and itemprop and a
\* property node that yields a value
C28_Witness ==
    /\ pc = "done"
    /\ Slots # {}
    /\ \E y, x \in Elements \ WithinReach :
            /\ hasScope(y) /\ hasProp(y) /\ OutOfEveryScope(y)
            /\ PlainProp(x) /\ YieldsValue(x) /\ OutOfEveryScope(x)

----------------------------------------------------------------------------
(* C29 *)

HasItemref(j) == getAttr("itemref", Node(tree, created[j].node)).ok

\* the r-th token of the reference list of Item j's node names a node
Resolves(j, r) ==
    /\ r \in 1 .. Len(RefTokens(j))
    /\ RefTokens(j)[r] # ""
    /\ LastWithId(RefTokens(j)[r]) # -1

\* the property nodes read through the reference list of Item j's node
Referenced(j) ==
    UNION {FoundFrom(LastWithId(RefTokens(j)[r])) : r \in {q \in 1 .. Len(RefTokens(j)) : Resolves(j, q)}}

\* Item j holds the values of the nodes of its node's reference list
HoldsReferenced(j) ==
    \A r \in 1 .. Len(RefTokens(j)) :
        Resolves(j, r) =>
            \A x \in FoundFrom(LastWithId(RefTokens(j)[r])) :
                \E s \in Slots : s.item = j /\ OriginAt(s) = [node |-> x, ref |-> r]

\* under every name of Item j the values read through the reference list lie
\* before the values of the node's own descendants
ReferencedBeforeOwn(j) ==
    \A s, t \in Slots :
        (s.item = j /\ t.item = j /\ s.name = t.name /\ ThroughRef(s) /\ ~ThroughRef(t)) =>
            s.j < t.j

\* the slot was filled on a path of its own Item: from a descendant of the
\* Item's node, or from a node that a token of the Item's own reference list
\* leads to
OnOwnPath(s) ==
    IF ThroughRef(s)
    THEN /\ Resolves(s.item, OriginAt(s).ref)
         /\ Reachable(OriginAt(s).node, LastWithId(RefTokens(s.item)[OriginAt(s).ref]))
    ELSE OwnedBy(OriginAt(s).node, created[s.item].node)

\* C29 as stated: in the finished model a nested Item built for a node with
\* itemscope, itemprop and itemref holds the values of the referenced nodes,
\* before those of the node's own descendants, and the enclosing Item holds
\* no value of a referenced node.
C29_ReferencedNotInEnclosing ==
    pc = "done" =>
        \A j \in ItemIds : (Nested(j) /\ HasItemref(j)) =>
            /\ HoldsReferenced(j)
            /\ ReferencedBeforeOwn(j)
            /\ \A s \in Slots :
                    s.item = created[j].parent => OriginAt(s).node \notin Referenced(j)

\* C29 amended: the nested Item holds the values of the referenced nodes
\* before those of the node's own descendants, and every value of the
\* enclosing Item was read on the enclosing Item's own paths, so that it
\* holds a value of a referenced node only when it reads that node itself.
C29_ReferencedIntoNested ==
    pc = "done" =>
        \A j \in ItemIds : (Nested(j) /\ HasItemref(j)) =>
            /\ HoldsReferenced(j)
            /\ ReferencedBeforeOwn(j)
            /\ \A s \in Slots : s.item = created[j].parent => OnOwnPath(s)

\* a finished model where a nested Item holds under one name a value from
\* its node's reference list before a value of its node's child, and the
\* enclosing Item holds neither
C29_Witness ==
    /\ pc = "done"
    /\ \E j \in ItemIds : \E s, t \in Slots :
            /\ Nested(j) /\ HasItemref(j)
            /\ s.item = j /\ t.item = j /\ s.name = t.name
            /\ ThroughRef(s) /\ ~ThroughRef(t) /\ s.j < t.j
            /\ OriginAt(s).node \in Referenced(j)
            /\ \A u \in Slots :
                    u.item = created[j].parent =>
                        OriginAt(u).node \notin {OriginAt(s).node, OriginAt(t).node}

====
